---- MODULE Spec2Model ----
(***************************************************************************)
(* Model of homework_bot (src/homework.py, src/exceptions.py): the         *)
(* poll - check - notify loop of main() and the functions it calls.        *)
(*                                                                         *)
(* Texts: the module's string literals are Cyrillic; they are written here *)
(* transliterated to ASCII, character structure (quotes, full stops,       *)
(* spaces) kept as in the source.                                          *)
(* Python values are encoded as records with a fixed set of fields, so     *)
(* that any two payloads can be compared.                                  *)
(***************************************************************************)
EXTENDS Integers, Sequences, FiniteSets, TLC

\* ------------------------------------------------------------------ bounds
\* current_date values and the start time range over 0..MaxDate
MaxDate == 1
\* longest homeworks list the API returns
MaxLen == 2

\* --------------------------------------------------------------- constants
RETRY_PERIOD == 600

\* http.HTTPStatus.OK
HTTP_OK == 200

\* Python's None (last_status before the first notification, an unset
\* environment variable)
None == "None"

Token == <<"PRACTICUM_TOKEN", "TELEGRAM_TOKEN", "TELEGRAM_CHAT_ID">>

TokenNames == {Token[i] : i \in 1..Len(Token)}

\* os.getenv gives None for an unset variable, otherwise its string
TokenValues == {None, "", "secret"}

VerdictCodes == {"approved", "reviewing", "rejected"}

HOMEWORK_VERDICTS ==
  [s \in VerdictCodes |->
     CASE s = "approved"  -> "Rabota proverena: revyueru vsyo ponravilos. Ura!"
       [] s = "reviewing" -> "Rabota vzyata na proverku revyuerom."
       [] s = "rejected"  -> "Rabota proverena: u revyuera est zamechaniya."]

\* ------------------------------------------------------------- exceptions
\* An exception is its class name and its message; NoExc stands for
\* "nothing raised".
NoExc == [type |-> "", msg |-> ""]

Raise(type, msg) == [type |-> type, msg |-> msg]

\* Outcome of a call: the exception it raised, or the value it returned.
Returned(v) == [exc |-> NoExc, value |-> v]

Raised(type, msg) == [exc |-> Raise(type, msg), value |-> None]

\* Direct base class of each exception class (src/exceptions.py and the
\* builtins the loop can meet).
BaseClass(type) ==
  CASE type = "MissingHomeworkKeyError"    -> "KeyError"
    [] type = "HomeworksNotListError"      -> "TypeError"
    [] type = "UnknownHomeworkStatusError" -> "ValueError"
    [] OTHER                               -> "Exception"

\* str(e) as the f-strings of main() compute it: KeyError (and so
\* MissingHomeworkKeyError) shows the repr of its argument, in quotes.
ExcStr(e) ==
  IF e.type = "KeyError" \/ BaseClass(e.type) = "KeyError"
  THEN "'" \o e.msg \o "'"
  ELSE e.msg

\* --------------------------------------------------------- JSON payloads
\* A homework record as decoded from JSON: a dict with optional keys
\* homework_name and status, or something that is not a dict at all.
Names == {"hw1"}

Statuses == VerdictCodes \cup {"frozen"}

DictItems ==
  { [kind |-> "dict", hasName |-> hn, homework_name |-> n,
     hasStatus |-> hs, status |-> s] :
      hn \in BOOLEAN, n \in Names \cup {""},
      hs \in BOOLEAN, s \in Statuses \cup {""} }

Items ==
  { h \in DictItems : /\ h.hasName <=> h.homework_name # ""
                      /\ h.hasStatus <=> h.status # "" }
  \cup
  { [kind |-> k, hasName |-> FALSE, homework_name |-> "",
     hasStatus |-> FALSE, status |-> ""] : k \in {"str", "num"} }

ListsUpTo(n) == UNION { [1..k -> Items] : k \in 0..n }

ItemLists == ListsUpTo(MaxLen)

\* The value under the key homeworks: a list of items, or a value of
\* another JSON type, which is truthy or falsy ("" / 0 / {} / null).
HwValuesOf(lists) ==
  { [kind |-> "list", truthy |-> l # <<>>, items |-> l] : l \in lists }
  \cup
  { [kind |-> k, truthy |-> t, items |-> <<>>] :
      k \in {"str", "num", "dict"}, t \in BOOLEAN }
  \cup
  { [kind |-> "null", truthy |-> FALSE, items |-> <<>>] }

NoHw == [kind |-> "null", truthy |-> FALSE, items |-> <<>>]

Dates == 0..MaxDate

\* A decoded response body: a dict with optional keys homeworks and
\* current_date, or a value that is not a dict (list, null).
PayloadsOf(lists) ==
  { [kind |-> "dict", hasHw |-> TRUE, hw |-> v, hasDate |-> TRUE,
     current_date |-> d] : v \in HwValuesOf(lists), d \in Dates }
  \cup
  { [kind |-> "dict", hasHw |-> TRUE, hw |-> v, hasDate |-> FALSE,
     current_date |-> 0] : v \in HwValuesOf(lists) }
  \cup
  { [kind |-> "dict", hasHw |-> FALSE, hw |-> NoHw, hasDate |-> TRUE,
     current_date |-> d] : d \in Dates }
  \cup
  { [kind |-> k, hasHw |-> FALSE, hw |-> NoHw, hasDate |-> FALSE,
     current_date |-> 0] : k \in {"dict", "list", "null"} }

Payloads == PayloadsOf(ItemLists)

NullPayload ==
  [kind |-> "null", hasHw |-> FALSE, hw |-> NoHw, hasDate |-> FALSE,
   current_date |-> 0]

\* The exceptions requests.get raises, by class name.  ConnectTimeout is a
\* subclass of requests.ConnectionError, ReadTimeout is not.
TransportFailures == {"ConnectionError", "ConnectTimeout", "ReadTimeout"}

IsConnectionError(t) == t \in {"ConnectionError", "ConnectTimeout"}

\* What one requests.get call meets: a transport failure, or a response
\* with a status code whose body decodes to a payload or does not.
ApiOutcomes ==
  { [transport |-> t, status_code |-> 0, decodable |-> FALSE,
     payload |-> NullPayload] : t \in TransportFailures }
  \cup
  { [transport |-> "ok", status_code |-> 503, decodable |-> FALSE,
     payload |-> NullPayload] }
  \cup
  { [transport |-> "ok", status_code |-> HTTP_OK, decodable |-> FALSE,
     payload |-> NullPayload] }
  \cup
  { [transport |-> "ok", status_code |-> HTTP_OK, decodable |-> TRUE,
     payload |-> p] : p \in Payloads }

\* ------------------------------------------------------- pure functions
\* Variant of missing_tokens: only an unset variable counts as missing.
missing_tokens_unset_only(env) ==
  SelectSeq(Token, LAMBDA t : env[t] = None)

\* check_tokens: the names of the credentials whose value is falsy (None
\* or ""), in the order of the Token enum.
missing_tokens(env) ==
  SelectSeq(Token, LAMBDA t : env[t] = None \/ env[t] = "")

check_tokens(env) == missing_tokens(env) = <<>>

\* Variant of send_message: the channel's exception is swallowed.
send_message_swallow(message, channelOk) == Returned(None)

\* send_message: hands the text to the channel; channelOk tells whether
\* bot.send_message returned or raised ApiException / RequestException.
send_message(message, channelOk) ==
  IF channelOk
  THEN Returned(None)
  ELSE Raised("MessageSendError", "Ne udalos otpravit soobshchenie: err")

\* Variant of get_api_answer: every exception of requests.get is reported
\* as APIConnectionError.
get_api_answer_all_connection(timestamp, o) ==
  IF o.transport # "ok"
  THEN Raised("APIConnectionError", "Oshibka soedineniya s API: err.")
  ELSE IF o.status_code # HTTP_OK
  THEN Raised("APIResponseError",
              "API vernul kod otveta " \o ToString(o.status_code) \o ".")
  ELSE IF ~o.decodable
  THEN Raised("JSONDecodeError", "Oshibka pri dekodirovanii JSON: err.")
  ELSE Returned(o.payload)

\* get_api_answer: one GET with from_date = timestamp, meeting outcome o.
get_api_answer(timestamp, o) ==
  IF IsConnectionError(o.transport)
  THEN Raised("APIConnectionError", "Oshibka soedineniya s API: err.")
  ELSE IF o.transport # "ok"
  THEN Raised("APIResponseError", "Oshibka pri zaprose k API: err.")
  ELSE IF o.status_code # HTTP_OK
  THEN Raised("APIResponseError",
              "API vernul kod otveta " \o ToString(o.status_code) \o ".")
  ELSE IF ~o.decodable
  THEN Raised("JSONDecodeError", "Oshibka pri dekodirovanii JSON: err.")
  ELSE Returned(o.payload)

\* Variant of check_response: the type of homeworks is not looked at.
check_response_no_list_check(response) ==
  IF response.kind # "dict"
  THEN Raise("TypeError", "Otvet API ne yavlyaetsya slovarem.")
  ELSE IF ~response.hasHw
  THEN Raise("MissingHomeworkKeyError",
             "V otvete API otsutstvuet klyuch \"homeworks\".")
  ELSE NoExc

\* check_response: NoExc when the payload is accepted.
check_response(response) ==
  IF response.kind # "dict"
  THEN Raise("TypeError", "Otvet API ne yavlyaetsya slovarem.")
  ELSE IF ~response.hasHw
  THEN Raise("MissingHomeworkKeyError",
             "V otvete API otsutstvuet klyuch \"homeworks\".")
  ELSE IF response.hw.kind # "list"
  THEN Raise("HomeworksNotListError",
             "Znachenie klyucha \"homeworks\" ne yavlyaetsya spiskom.")
  ELSE NoExc

\* Variant of parse_status: the key status is looked for first.
parse_status_status_first(homework) ==
  IF homework.kind = "num"
  THEN Raised("TypeError", "argument of type 'int' is not iterable")
  ELSE IF homework.kind # "dict" \/ ~homework.hasStatus
  THEN Raised("MissingHomeworkKeyError",
              "Otsutstvuet klyuch \"status\" v homework.")
  ELSE IF ~homework.hasName
  THEN Raised("MissingHomeworkKeyError",
              "Otsutstvuet klyuch \"homework_name\" v homework.")
  ELSE IF homework.status \notin DOMAIN HOMEWORK_VERDICTS
  THEN Raised("UnknownHomeworkStatusError",
              "Neizvestnyy status raboty: " \o homework.status)
  ELSE Returned("Izmenilsya status proverki raboty \""
                \o homework.homework_name \o "\"."
                \o HOMEWORK_VERDICTS[homework.status])

\* parse_status.  A record that is a number fails the `in` test itself;
\* a string record does not contain the key as a substring.
parse_status(homework) ==
  IF homework.kind = "num"
  THEN Raised("TypeError", "argument of type 'int' is not iterable")
  ELSE IF homework.kind # "dict" \/ ~homework.hasName
  THEN Raised("MissingHomeworkKeyError",
              "Otsutstvuet klyuch \"homework_name\" v homework.")
  ELSE IF ~homework.hasStatus
  THEN Raised("MissingHomeworkKeyError",
              "Otsutstvuet klyuch \"status\" v homework.")
  ELSE IF homework.status \notin DOMAIN HOMEWORK_VERDICTS
  THEN Raised("UnknownHomeworkStatusError",
              "Neizvestnyy status raboty: " \o homework.status)
  ELSE Returned("Izmenilsya status proverki raboty \""
                \o homework.homework_name \o "\"."
                \o HOMEWORK_VERDICTS[homework.status])

\* A message handed to the channel, and whether the channel took it.
Attempt(text, channelOk) == [text |-> text, ok |-> channelOk]

\* Every text parse_status can return.
StatusTexts ==
  { parse_status(h).value : h \in { i \in Items : parse_status(i).exc = NoExc } }

\* The homework-status text among the messages att that the channel took
\* (None when there is none).
Notified(att) ==
  IF \E i \in 1..Len(att) : att[i].ok /\ att[i].text \in StatusTexts
  THEN (CHOOSE a \in {att[i] : i \in 1..Len(att)} :
          a.ok /\ a.text \in StatusTexts).text
  ELSE None

\* The homework-status text among the messages att whose send failed
\* (None when there is none).
Unsent(att) ==
  IF \E i \in 1..Len(att) : ~att[i].ok /\ att[i].text \in StatusTexts
  THEN (CHOOSE a \in {att[i] : i \in 1..Len(att)} :
          ~a.ok /\ a.text \in StatusTexts).text
  ELSE None

\* What check_response accepted in handle_api_request (line 207): a
\* payload whose homeworks is an empty list or a list of records.
NotValidated == "not validated"

Validated(payload) ==
  IF payload.hw.items = <<>> THEN "empty list" ELSE "list of records"

\* main() has not exited
NotExited == -1

\* Variant of handle_homework: the comparison with last_status is missing.
handle_homework_always_send(homework, last_status, channelOk) ==
  LET status == parse_status(homework) IN
  IF status.exc # NoExc
  THEN [exc |-> status.exc, value |-> None, attempts |-> <<>>]
  ELSE LET s == send_message(status.value, channelOk) IN
       [exc |-> s.exc,
        value |-> IF s.exc # NoExc THEN None ELSE status.value,
        attempts |-> <<Attempt(status.value, channelOk)>>]

\* handle_homework: the exception raised or the value returned (the new
\* last_status), with the messages handed to the channel on the way.
handle_homework(homework, last_status, channelOk) ==
  LET status == parse_status(homework) IN
  IF status.exc # NoExc
  THEN [exc |-> status.exc, value |-> None, attempts |-> <<>>]
  ELSE IF status.value # last_status
  THEN LET s == send_message(status.value, channelOk) IN
       IF s.exc # NoExc
       THEN [exc |-> s.exc, value |-> None,
             attempts |-> <<Attempt(status.value, channelOk)>>]
       ELSE [exc |-> NoExc, value |-> status.value,
             attempts |-> <<Attempt(status.value, channelOk)>>]
  ELSE [exc |-> NoExc, value |-> last_status, attempts |-> <<>>]

\* response.get('homeworks', [])
get_homeworks(response) ==
  IF response.hasHw
  THEN response.hw
  ELSE [kind |-> "list", truthy |-> FALSE, items |-> <<>>]

\* Variant of get_current_date: the default is 0, not the old cursor.
get_current_date_default0(response, timestamp) ==
  IF response.hasDate THEN response.current_date ELSE 0

\* response.get('current_date', timestamp)
get_current_date(response, timestamp) ==
  IF response.hasDate THEN response.current_date ELSE timestamp

\* Variant of first_homework: the last record of the list is taken.
first_homework_last(homeworks) ==
  CASE homeworks.kind = "list" ->
         Returned(homeworks.items[Len(homeworks.items)])
    [] homeworks.kind = "str"  ->
         Returned([kind |-> "str", hasName |-> FALSE, homework_name |-> "",
                   hasStatus |-> FALSE, status |-> ""])
    [] homeworks.kind = "num"  ->
         Raised("TypeError", "'int' object is not subscriptable")
    [] OTHER                   -> Raised("KeyError", "0")

\* homeworks[0] for a truthy homeworks value
first_homework(homeworks) ==
  CASE homeworks.kind = "list" -> Returned(homeworks.items[1])
    [] homeworks.kind = "str"  ->
         Returned([kind |-> "str", hasName |-> FALSE, homework_name |-> "",
                   hasStatus |-> FALSE, status |-> ""])
    [] homeworks.kind = "num"  ->
         Raised("TypeError", "'int' object is not subscriptable")
    [] OTHER                   -> Raised("KeyError", "0")

\* The formatted status of the first record of a response, as the loop
\* would compute it: defined when homeworks is non-empty, its first element
\* can be taken and parse_status returns.
HasFormatted(r) ==
  /\ r.kind = "dict"
  /\ get_homeworks(r).truthy
  /\ first_homework(get_homeworks(r)).exc = NoExc
  /\ parse_status(first_homework(get_homeworks(r)).value).exc = NoExc

Formatted(r) == parse_status(first_homework(get_homeworks(r)).value).value

\* What the try block reads from a response: the formatted status of its
\* first record (None when there is none), whether homeworks is a list
\* and of how many records, and its current_date.
Seen(r) ==
  [formatted |-> IF HasFormatted(r) THEN Formatted(r) ELSE None,
   listed |-> r.kind = "dict" /\ r.hasHw /\ r.hw.kind = "list",
   count |-> Len(r.hw.items),
   hasDate |-> r.kind = "dict" /\ r.hasDate,
   current_date |-> IF r.kind = "dict" /\ r.hasDate THEN r.current_date
                    ELSE 0]

\* Variant of try_body: the cursor is taken from the response before the
\* first record is handled, so it advances in a failing cycle too.
try_body_cursor_first(response, last_status, timestamp, channelOk) ==
  IF response.kind # "dict"
  THEN [exc |-> Raise("AttributeError", "object has no attribute 'get'"),
        last_status |-> last_status, timestamp |-> timestamp,
        attempts |-> <<>>]
  ELSE
    LET ts == IF response.hasDate THEN response.current_date ELSE timestamp
        homeworks == get_homeworks(response)
        first == first_homework(homeworks)
        h == handle_homework(first.value, last_status, channelOk)
    IN IF ~homeworks.truthy
       THEN [exc |-> NoExc, last_status |-> last_status, timestamp |-> ts,
             attempts |-> <<>>]
       ELSE IF first.exc # NoExc
       THEN [exc |-> first.exc, last_status |-> last_status,
             timestamp |-> ts, attempts |-> <<>>]
       ELSE [exc |-> h.exc,
             last_status |-> IF h.exc # NoExc THEN last_status ELSE h.value,
             timestamp |-> ts, attempts |-> h.attempts]

\* The statements of main()'s try block after handle_api_request returned
\* response: the exception raised (or NoExc), the values of last_status and
\* timestamp afterwards, and the messages handed to the channel.
try_body(response, last_status, timestamp, channelOk) ==
  LET fail(e, att) == [exc |-> e, last_status |-> last_status,
                       timestamp |-> timestamp, attempts |-> att]
  IN
  IF response.kind # "dict"
  THEN fail(Raise("AttributeError", "object has no attribute 'get'"), <<>>)
  ELSE
    LET homeworks == get_homeworks(response) IN
    IF homeworks.truthy
    THEN LET first == first_homework(homeworks) IN
         IF first.exc # NoExc
         THEN fail(first.exc, <<>>)
         ELSE LET h == handle_homework(first.value, last_status, channelOk)
              IN IF h.exc # NoExc
                 THEN fail(h.exc, h.attempts)
                 ELSE [exc |-> NoExc, last_status |-> h.value,
                       timestamp |-> get_current_date(response, timestamp),
                       attempts |-> h.attempts]
    ELSE [exc |-> NoExc, last_status |-> last_status,
          timestamp |-> get_current_date(response, timestamp),
          attempts |-> <<>>]

\* The text main() sends from the except clause that catches e.
error_text(e) ==
  IF e.type = "APIResponseError"
  THEN "Oshibka pri poluchenii otveta ot API: " \o ExcStr(e)
  ELSE "Sboy v rabote: " \o ExcStr(e)

\* A call of one function on its own: the function's name and its argument
\* (a payload, a homework record or a request outcome; the fields not used
\* by the function hold a null value), and what the call raised or
\* returned.
NullItem ==
  [kind |-> "null", hasName |-> FALSE, homework_name |-> "",
   hasStatus |-> FALSE, status |-> ""]

NullOutcome ==
  [transport |-> "ok", status_code |-> 0, decodable |-> FALSE,
   payload |-> NullPayload]

Call(fn, payload, homework, outcome) ==
  [fn |-> fn, payload |-> payload, homework |-> homework,
   outcome |-> outcome]

NoArg == Call("", NullPayload, NullItem, NullOutcome)

Ret(done, e, text, payload) ==
  [done |-> done, exc |-> e, text |-> text, payload |-> payload]

NoRet == Ret(FALSE, NoExc, None, NullPayload)

\* ---------------------------------------------------------------- state
VARIABLES
  env,          \* the three credentials read from the environment
  pc,           \* position in main()
  critical,     \* credential names check_tokens logged as missing
  timestamp,    \* main(): timestamp (the poll cursor)
  last_status,  \* main(): last_status
  error_sent,   \* main(): error_sent
  response,     \* main(): response, as returned by handle_api_request
  exc,          \* the exception in flight (NoExc when none)
  requests,     \* history: from_date of each GET of the current cycle
  attempts,     \* history: messages handed to the channel in this cycle
  last0,        \* history: last_status when the current cycle began
  ts0,          \* history: timestamp when the current cycle began
  seen,         \* history: what the try block read from this cycle's response
  notified0,    \* history: the status text the previous cycle got through
                \* the channel (None when it sent none)
  unsent0,      \* history: the status text whose send failed in the
                \* previous cycle (None when none)
  validated,    \* history: what check_response accepted in this cycle
  slept,        \* history: time slept since the current cycle began
  exit_status,  \* the status main() exited with (NotExited while it runs)
  arg,          \* the argument of a function called on its own
  ret           \* what that call raised or returned

vars == <<env, pc, critical, timestamp, last_status, error_sent, response,
          exc, requests, attempts, last0, ts0, seen, notified0, unsent0,
          slept, exit_status, arg, ret, validated>>

history == <<requests, attempts, last0, ts0, seen, notified0, unsent0,
             slept>>

\* pc: "startup"  before check_tokens (line 228)
\*     "exited"   after sys.exit(1) (line 232)
\*     "poll"     top of the while loop, before handle_api_request
\*     "fetch2"   inside handle_api_request, before line 208
\*     "body"     handle_api_request returned, before line 243
\*     "else"     try block completed (line 276)
\*     "except"   an exception of the try block is being dispatched
\*     "finally"  before time.sleep (line 280)
\*     "slept"    after time.sleep returned
\*     "crashed"  an exception left main()
Init ==
  /\ env \in [TokenNames -> TokenValues]
  /\ pc = "startup"
  /\ critical = <<>>
  /\ timestamp = 0
  /\ last_status = None
  /\ error_sent = FALSE
  /\ response = NullPayload
  /\ exc = NoExc
  /\ requests = <<>>
  /\ attempts = <<>>
  /\ last0 = None
  /\ ts0 = 0
  /\ seen = Seen(NullPayload)
  /\ notified0 = None
  /\ unsent0 = None
  /\ slept = 0
  /\ exit_status = NotExited
  /\ validated = NotValidated
  /\ arg = NoArg
  /\ ret = NoRet

\* main(), lines 226-238: the credential check (sys.exit(1) when it fails),
\* then the loop's variables.
\* int(time.time()) is some date of the modelled range.
Startup ==
  /\ pc = "startup"
  /\ critical' = missing_tokens(env)
  /\ IF check_tokens(env)
     THEN /\ pc' = "poll"
          /\ timestamp' \in Dates
          /\ ts0' = timestamp'
          /\ UNCHANGED exit_status
     ELSE /\ pc' = "exited"
          /\ exit_status' = 1
          /\ UNCHANGED <<timestamp, ts0>>
  /\ UNCHANGED <<env, last_status, error_sent, response, exc, requests,
                 attempts, last0, seen, notified0, unsent0, slept, arg, ret,
                 validated>>

\* handle_api_request, line 207: the first GET and check_response on its
\* payload, which is then dropped.
FetchValidate ==
  /\ pc = "poll"
  /\ \E o \in ApiOutcomes :
       LET r == get_api_answer(timestamp, o)
           e == IF r.exc # NoExc THEN r.exc ELSE check_response(r.value)
       IN /\ exc' = e
          /\ pc' = IF e # NoExc THEN "except" ELSE "fetch2"
          /\ validated' = IF e # NoExc THEN NotValidated
                          ELSE Validated(r.value)
  /\ requests' = Append(requests, timestamp)
  /\ UNCHANGED <<env, critical, exit_status, arg, ret, timestamp, last_status, error_sent,
                 response, attempts, last0, ts0, seen, notified0, unsent0, slept>>

\* handle_api_request, line 208: the second GET, whose payload is returned
\* to main() as it came.
FetchReturn ==
  /\ pc = "fetch2"
  /\ \E o \in ApiOutcomes :
       LET r == get_api_answer(timestamp, o)
       IN IF r.exc # NoExc
          THEN /\ exc' = r.exc
               /\ pc' = "except"
               /\ UNCHANGED response
          ELSE /\ exc' = NoExc
               /\ pc' = "body"
               /\ response' = r.value
  /\ requests' = Append(requests, timestamp)
  /\ UNCHANGED <<env, critical, exit_status, arg, ret, validated, timestamp, last_status, error_sent,
                 attempts, last0, ts0, seen, notified0, unsent0, slept>>

\* Variant of Body: last_status takes the formatted status before the
\* message is sent.
Body_status_first ==
  /\ pc = "body"
  /\ \E channelOk \in BOOLEAN :
       LET b == try_body(response, last_status, timestamp, channelOk)
       IN /\ exc' = b.exc
          /\ pc' = IF b.exc # NoExc THEN "except" ELSE "else"
          /\ last_status' = IF HasFormatted(response)
                            THEN Formatted(response) ELSE b.last_status
          /\ timestamp' = b.timestamp
          /\ attempts' = attempts \o b.attempts
  /\ seen' = Seen(response)
  /\ response' = NullPayload
  /\ UNCHANGED <<env, critical, exit_status, arg, ret, validated, error_sent, requests, last0, ts0, notified0, unsent0,
                 slept>>

\* main(), lines 243-254: the rest of the try block.  response is not read
\* after it (line 242 assigns it anew), so its value is dropped here and
\* what was read from it is kept in seen.
Body ==
  /\ pc = "body"
  /\ \E channelOk \in BOOLEAN :
       LET b == try_body(response, last_status, timestamp, channelOk)
       IN /\ exc' = b.exc
          /\ pc' = IF b.exc # NoExc THEN "except" ELSE "else"
          /\ last_status' = b.last_status
          /\ timestamp' = b.timestamp
          /\ attempts' = attempts \o b.attempts
  /\ seen' = Seen(response)
  /\ response' = NullPayload
  /\ UNCHANGED <<env, critical, exit_status, arg, ret, validated, error_sent, requests, last0, ts0, notified0, unsent0,
                 slept>>

\* Variant of ElseClause: error_sent is left as it is.
ElseClause_keep_latch ==
  /\ pc = "else"
  /\ error_sent' = error_sent
  /\ pc' = "finally"
  /\ UNCHANGED <<env, critical, exit_status, arg, ret, validated, timestamp, last_status, response, exc,
                 history>>

\* main(), lines 276-277
ElseClause ==
  /\ pc = "else"
  /\ error_sent' = FALSE
  /\ pc' = "finally"
  /\ UNCHANGED <<env, critical, exit_status, arg, ret, validated, timestamp, last_status, response, exc,
                 history>>

\* Variant of ExceptClause: error_sent is set before the send.
ExceptClause_latch_first ==
  /\ pc = "except"
  /\ pc' = "finally"
  /\ IF error_sent
     THEN /\ exc' = NoExc
          /\ UNCHANGED <<error_sent, attempts>>
     ELSE \E channelOk \in BOOLEAN :
            /\ attempts' = Append(attempts,
                                  Attempt(error_text(exc), channelOk))
            /\ exc' = send_message(error_text(exc), channelOk).exc
            /\ error_sent' = TRUE
  /\ UNCHANGED <<env, critical, exit_status, arg, ret, validated, timestamp, last_status, response, requests,
                 last0, ts0, seen, notified0, unsent0, slept>>

\* main(), lines 256-275: both except clauses.  With error_sent unset the
\* error text goes to the channel; a MessageSendError raised there is not
\* caught by any clause and stays in flight.
ExceptClause ==
  /\ pc = "except"
  /\ pc' = "finally"
  /\ IF error_sent
     THEN /\ exc' = NoExc
          /\ UNCHANGED <<error_sent, attempts>>
     ELSE \E channelOk \in BOOLEAN :
            LET s == send_message(error_text(exc), channelOk)
            IN /\ attempts' = Append(attempts,
                                     Attempt(error_text(exc), channelOk))
               /\ exc' = s.exc
               /\ error_sent' = (s.exc = NoExc)
  /\ UNCHANGED <<env, critical, exit_status, arg, ret, validated, timestamp, last_status, response, requests,
                 last0, ts0, seen, notified0, unsent0, slept>>

\* Variant of Finally: the sleep follows the try statement instead of being
\* its finally clause, so an exception in flight skips it.
Finally_sleep_after_try ==
  /\ pc = "finally"
  /\ slept' = IF exc # NoExc THEN slept ELSE slept + RETRY_PERIOD
  /\ pc' = "slept"
  /\ UNCHANGED <<env, critical, exit_status, arg, ret, validated, timestamp, last_status, error_sent,
                 response, exc, requests, attempts, last0, ts0, seen,
                 notified0, unsent0>>

\* main(), lines 279-280: the sleep.
Finally ==
  /\ pc = "finally"
  /\ slept' = slept + RETRY_PERIOD
  /\ pc' = "slept"
  /\ UNCHANGED <<env, critical, exit_status, arg, ret, validated, timestamp, last_status, error_sent,
                 response, exc, requests, attempts, last0, ts0, seen,
                 notified0, unsent0>>

\* main(), line 240 after line 280: with no exception in flight the loop
\* goes round and the next cycle begins (the history starts afresh);
\* otherwise the exception leaves the loop and main().
LoopBack ==
  /\ pc = "slept"
  /\ IF exc # NoExc
     THEN /\ pc' = "crashed"
          /\ UNCHANGED <<history, validated>>
     ELSE /\ pc' = "poll"
          /\ requests' = <<>>
          /\ attempts' = <<>>
          /\ last0' = last_status
          /\ ts0' = timestamp
          /\ seen' = Seen(NullPayload)
          /\ notified0' = Notified(attempts)
          /\ unsent0' = Unsent(attempts)
          /\ validated' = NotValidated
          /\ slept' = 0
  /\ UNCHANGED <<env, critical, exit_status, arg, ret, timestamp, last_status, error_sent,
                 response, exc>>

Next ==
  \/ Startup
  \/ FetchValidate
  \/ FetchReturn
  \/ Body
  \/ ElseClause
  \/ ExceptClause
  \/ Finally
  \/ LoopBack

Spec == Init /\ [][Next]_vars

\* ------------------------------------------------ the functions on their own
\* check_response, parse_status and get_api_answer called once each on an
\* argument of their domain, outside the loop.  Records here also carry
\* names and statuses that are empty strings or unusual.
CallNames == Names \cup {"", "hw 2.zip"}

CallStatuses == Statuses \cup {"", "APPROVED"}

CallItems ==
  Items
  \cup { [kind |-> "dict", hasName |-> TRUE, homework_name |-> n,
          hasStatus |-> TRUE, status |-> st] :
            n \in CallNames, st \in CallStatuses }
  \cup { [kind |-> "dict", hasName |-> TRUE, homework_name |-> n,
          hasStatus |-> FALSE, status |-> ""] : n \in CallNames }
  \cup { [kind |-> "dict", hasName |-> FALSE, homework_name |-> "",
          hasStatus |-> TRUE, status |-> st] : st \in CallStatuses }

CallArgs ==
  { Call("check_response", p, NullItem, NullOutcome) : p \in Payloads }
  \cup { Call("parse_status", NullPayload, h, NullOutcome) : h \in CallItems }
  \cup { Call("get_api_answer", NullPayload, NullItem, o) :
           o \in ApiOutcomes }

InitCalls ==
  /\ env = [t \in TokenNames |-> "secret"]
  /\ pc = "call"
  /\ critical = <<>>
  /\ timestamp \in Dates
  /\ last_status = None
  /\ error_sent = FALSE
  /\ response = NullPayload
  /\ exc = NoExc
  /\ requests = <<>>
  /\ attempts = <<>>
  /\ last0 = None
  /\ ts0 = 0
  /\ seen = Seen(NullPayload)
  /\ notified0 = None
  /\ unsent0 = None
  /\ slept = 0
  /\ exit_status = NotExited
  /\ validated = NotValidated
  /\ arg \in CallArgs
  /\ ret = NoRet

\* what no function called on its own touches
loopState == <<env, critical, timestamp, last_status, error_sent, response,
               exc, attempts, last0, ts0, seen, notified0, unsent0, slept,
               exit_status, validated>>

CallCheckResponse ==
  /\ pc = "call"
  /\ arg.fn = "check_response"
  /\ ret' = Ret(TRUE, check_response(arg.payload), None, NullPayload)
  /\ pc' = "returned"
  /\ UNCHANGED <<arg, requests, loopState>>

CallParseStatus ==
  /\ pc = "call"
  /\ arg.fn = "parse_status"
  /\ LET r == parse_status(arg.homework)
     IN ret' = Ret(TRUE, r.exc, r.value, NullPayload)
  /\ pc' = "returned"
  /\ UNCHANGED <<arg, requests, loopState>>

\* the GET carries from_date = timestamp
CallGetApiAnswer ==
  /\ pc = "call"
  /\ arg.fn = "get_api_answer"
  /\ LET r == get_api_answer(timestamp, arg.outcome)
     IN ret' = Ret(TRUE, r.exc, None,
                   IF r.exc = NoExc THEN r.value ELSE NullPayload)
  /\ requests' = Append(requests, timestamp)
  /\ pc' = "returned"
  /\ UNCHANGED <<arg, loopState>>

NextCalls ==
  \/ CallCheckResponse
  \/ CallParseStatus
  \/ CallGetApiAnswer

SpecCalls == InitCalls /\ [][NextCalls]_vars

\* ================================================================ claims
\* Every exception the try block of main() can raise, and the texts the
\* except clauses build from them.  None of the functions looks beyond the
\* first record, so responses with at most one record give them all.
ShortOutcomes ==
  { o \in ApiOutcomes : Len(o.payload.hw.items) <= 1 /\ o.payload.current_date = 0 }

TryExceptions ==
  { e \in { get_api_answer(0, o).exc : o \in ShortOutcomes }
          \cup { check_response(o.payload) : o \in ShortOutcomes }
          \cup { try_body(o.payload, None, 0, ok).exc :
                   o \in ShortOutcomes, ok \in BOOLEAN } :
      e # NoExc }

ErrorTexts == { error_text(e) : e \in TryExceptions }

SomeSendFailed == \E i \in 1..Len(attempts) : ~attempts[i].ok

\* A cycle has run to its end: the loop is about to go round, or main()
\* was left.
CycleOver == pc \in {"slept", "crashed"}

\* C1: a failing send never ends the loop: a cycle in which a send failed
\* does not end with main() terminated.
C1_SendFailureKeepsLoop ==
  SomeSendFailed => pc # "crashed"

\* C2 (as stated): every message handed to the channel is a text produced
\* by parse_status.
C2_OnlyStatusTexts ==
  \A i \in 1..Len(attempts) : attempts[i].text \in StatusTexts

\* C2 (amended): a message handed to the channel is either a parse_status
\* text, sent first in its cycle, or the error text an except clause built,
\* sent last in its cycle; error_sent is set exactly when the channel took
\* the error text.
C2_StatusOrLatchedErrorText ==
  \A i \in 1..Len(attempts) :
    \/ attempts[i].text \in StatusTexts /\ i = 1
    \/ /\ attempts[i].text \in ErrorTexts
       /\ i = Len(attempts)
       /\ pc \in {"finally", "slept", "crashed"}
       /\ error_sent = attempts[i].ok

C2_Witness ==
  \E i \in 1..Len(attempts) :
    attempts[i].text \in ErrorTexts /\ attempts[i].ok

\* C3: once the credential check has passed main() never terminates.
C3_MainNeverTerminates == pc # "crashed"

\* C4: last_status changes only by the step of a cycle that got a
\* homework-status text through the channel, and becomes that text; a
\* cycle in which something raised, or a send failed, ends with the
\* last_status it began with.
C4_LastStatusOnlyOnSuccessfulSend ==
  /\ [][ last_status' # last_status =>
           /\ pc = "body" /\ pc' = "else"
           /\ attempts' = Append(attempts, Attempt(last_status', TRUE))
           /\ last_status' \in StatusTexts ]_vars
  /\ []( (pc = "except" \/ exc # NoExc \/ SomeSendFailed)
           => last_status = last0 )

C4_Witness ==
  /\ pc = "else"
  /\ last_status # last0
  /\ attempts = <<Attempt(last_status, TRUE)>>

\* C5 (as stated): in the step that formats the first record, an equal
\* status sends nothing; a different one sends exactly one message and
\* last_status becomes that text.
C5_DedupAlwaysNotifies ==
  [][ (pc = "body" /\ HasFormatted(response)) =>
        IF Formatted(response) = last_status
        THEN attempts' = attempts
        ELSE /\ attempts' = Append(attempts,
                                   Attempt(Formatted(response), TRUE))
             /\ last_status' = Formatted(response) ]_vars

\* C5 (amended): an equal status hands nothing to the channel; a different
\* one is handed to the channel exactly once; when the channel takes it,
\* it is the only message of the cycle and last_status becomes that text,
\* when the send fails last_status stays.  A status the previous cycle got
\* through the channel is not sent again by the next cycle.
C5_DedupNotifiesWhenSendSucceeds ==
  /\ [][ (pc = "body" /\ HasFormatted(response)) =>
           LET f == Formatted(response) IN
           IF f = last_status
           THEN attempts' = attempts /\ last_status' = last_status
           ELSE /\ Len(attempts') = Len(attempts) + 1
                /\ attempts'[Len(attempts')].text = f
                /\ last_status' =
                     IF attempts'[Len(attempts')].ok THEN f ELSE last_status
         ]_vars
  /\ [][ (pc = "body" /\ HasFormatted(response) /\ notified0 # None
          /\ Formatted(response) = notified0) => attempts' = attempts ]_vars
  /\ []( (attempts # <<>> /\ attempts[1].ok
          /\ attempts[1].text \in StatusTexts) => Len(attempts) = 1 )

\* two successive cycles with the same formatted status: the first sent it,
\* the second sent nothing
C5_Witness ==
  /\ pc = "else"
  /\ notified0 # None
  /\ last_status = notified0
  /\ attempts = <<>>
  /\ seen.formatted = notified0

\* C6: every cycle, raising or not, is followed by one sleep of
\* RETRY_PERIOD before the loop goes round (or main() is left), and no
\* time is slept inside a cycle.
C6_OneSleepAfterEveryCycle ==
  /\ CycleOver => slept = RETRY_PERIOD
  /\ pc \in {"poll", "fetch2", "body", "else", "except", "finally"}
       => slept = 0
  /\ RETRY_PERIOD = 600

\* a failed cycle was followed by the sleep
C6_Witness ==
  /\ CycleOver
  /\ attempts # <<>>
  /\ attempts[Len(attempts)].text \in ErrorTexts
  /\ slept = RETRY_PERIOD

\* C7: a cycle issues exactly one request, carrying the cycle's timestamp.
C7_OneRequestPerCycle ==
  requests # <<>> => requests = <<ts0>>

\* C8: the payload main() reads homeworks and current_date from passed
\* check_response.
C8_ReadPayloadPassedValidation ==
  pc = "body" => check_response(response) = NoExc

\* C9 (as stated): when the response carries current_date the cycle sets
\* timestamp to it whatever happened to the notification, and otherwise
\* leaves timestamp alone.  Stated for the responses check_response
\* accepts, where only formatting and sending can fail.
C9_CursorAdvanceRegardless ==
  [][ (pc = "body" /\ check_response(response) = NoExc) =>
        timestamp' = IF response.hasDate
                     THEN response.current_date
                     ELSE timestamp ]_vars

\* C9 (amended): a cycle whose try block completes sets timestamp to the
\* response's current_date when it carries one; a cycle in which anything
\* raised (formatting and send included), or whose response carries no
\* current_date, leaves timestamp as it was.
C9_CursorAdvanceOnCompletedCycle ==
  /\ [][ pc = "body" =>
           timestamp' = IF pc' = "else" /\ response.hasDate
                        THEN response.current_date
                        ELSE timestamp ]_vars
  /\ [][ pc \notin {"body", "startup"} => timestamp' = timestamp ]_vars
  /\ []( (pc = "except" \/ exc # NoExc) => timestamp = ts0 )
  /\ []( pc = "else" =>
          timestamp = IF seen.hasDate THEN seen.current_date ELSE ts0 )

\* formatting of the first record failed; the response's current_date was
\* not taken
C9_Witness ==
  /\ pc = "except"
  /\ exc.type = "UnknownHomeworkStatusError"
  /\ seen.hasDate
  /\ seen.current_date # timestamp

\* C10 (as stated): the poll cursor never decreases.
C10_CursorMonotonic ==
  [][ pc # "startup" => timestamp' >= timestamp ]_vars

\* C10 (amended): the poll cursor takes no value but the current_date of
\* the response of a completed cycle; it decreases only when that
\* current_date is smaller than the from_date the response was asked with.
C10_CursorFollowsCurrentDate ==
  [][ (pc # "startup" /\ timestamp' # timestamp) =>
        /\ pc = "body" /\ pc' = "else"
        /\ response.hasDate
        /\ timestamp' = response.current_date
        /\ requests[Len(requests)] = timestamp ]_vars

C10_Witness ==
  /\ pc = "else"
  /\ timestamp > ts0

\* The credentials that are absent (unset) or empty.
AbsentCredentials == { t \in TokenNames : env[t] = None \/ env[t] = "" }

\* C11: with a credential absent or empty, check_tokens logs every missing
\* one by name and main() exits with a nonzero status before any request or
\* message; with all three set the loop is entered and nothing is logged.
\* The check is not run again: past startup its log never changes and
\* main() never returns to it.
C11_StartupCredentialCheck ==
  /\ []( pc = "exited" =>
           /\ AbsentCredentials # {}
           /\ { critical[i] : i \in 1..Len(critical) } = AbsentCredentials
           /\ Len(critical) = Cardinality(AbsentCredentials)
           /\ exit_status # 0 /\ exit_status # NotExited
           /\ requests = <<>> /\ attempts = <<>> )
  /\ []( pc \notin {"startup", "exited"} =>
           /\ AbsentCredentials = {}
           /\ critical = <<>>
           /\ exit_status = NotExited )
  /\ [][ pc # "startup" =>
           /\ pc' # "startup"
           /\ critical' = critical
           /\ env' = env
           /\ (pc = "exited" => pc' = "exited") ]_vars

\* two credentials missing (one unset, one empty): both named, main() exited
C11_Witness ==
  /\ pc = "exited"
  /\ env["PRACTICUM_TOKEN"] = None
  /\ env["TELEGRAM_CHAT_ID"] = ""
  /\ critical = <<"PRACTICUM_TOKEN", "TELEGRAM_CHAT_ID">>

\* The response main() is about to read carries a non-empty list.
NonEmptyList(r) ==
  r.kind = "dict" /\ r.hasHw /\ r.hw.kind = "list" /\ r.hw.items # <<>>

\* C12: in a cycle with a non-empty homeworks list what is formatted is
\* homeworks[0] alone: at most one message is handed to the channel, it is
\* the text parse_status gives for the first record, last_status stays or
\* becomes that text, and a formatting error is that of the first record -
\* whatever the records at index 1 and beyond hold.
C12_OnlyFirstRecord ==
  [][ (pc = "body" /\ NonEmptyList(response)) =>
        LET p == parse_status(response.hw.items[1]) IN
        /\ Len(attempts') <= Len(attempts) + 1
        /\ \A i \in (Len(attempts) + 1)..Len(attempts') :
             p.exc = NoExc /\ attempts'[i].text = p.value
        /\ last_status' \in {last_status, p.value}
        /\ (p.exc # NoExc => exc' = p.exc /\ last_status' = last_status)
        /\ (p.exc = NoExc /\ p.value # last_status =>
              Len(attempts') = Len(attempts) + 1)
    ]_vars

\* a cycle that read two or more records sent exactly one message, the
\* status of the first
C12_Witness ==
  /\ pc = "else"
  /\ seen.listed
  /\ seen.count >= 2
  /\ attempts = <<Attempt(seen.formatted, TRUE)>>

\* ---- the functions called on their own (SpecCalls)
CheckResponseReturned == pc = "returned" /\ arg.fn = "check_response"

ParseStatusReturned == pc = "returned" /\ arg.fn = "parse_status"

GetApiAnswerReturned == pc = "returned" /\ arg.fn = "get_api_answer"

\* C13: validation rejects a payload that is not a mapping with a
\* not-a-mapping (type) error, a mapping without the key homeworks with a
\* missing-key error, a mapping whose homeworks is not a list with a
\* not-a-list error, and accepts every other payload; the checks are made
\* in that order, and validation changes neither its argument nor any state
\* of the program.
C13_ValidationClassifies ==
  /\ []( CheckResponseReturned =>
           ret.exc.type =
             IF arg.payload.kind # "dict" THEN "TypeError"
             ELSE IF ~arg.payload.hasHw THEN "MissingHomeworkKeyError"
             ELSE IF arg.payload.hw.kind # "list"
             THEN "HomeworksNotListError"
             ELSE NoExc.type )
  /\ []( CheckResponseReturned =>
           (ret.exc = NoExc <=>
              /\ arg.payload.kind = "dict"
              /\ arg.payload.hasHw
              /\ arg.payload.hw.kind = "list") )
  /\ [][ (pc = "call" /\ arg.fn = "check_response") =>
           /\ arg' = arg
           /\ requests' = requests
           /\ loopState' = loopState ]_vars

C13_Witness ==
  /\ CheckResponseReturned
  /\ arg.payload.kind = "dict" /\ arg.payload.hasHw
  /\ arg.payload.hw.kind # "list"
  /\ ret.exc.type = "HomeworksNotListError"

\* C14: formatting a record (a mapping) fails with a missing-key error that
\* names homework_name when that key is absent, whatever else the record
\* holds; else with a missing-key error that names status when that key is
\* absent; else with an unknown-status error that carries the status value
\* when the status is none of approved, reviewing, rejected; and succeeds
\* in every other case.
C14_FormattingChecksInOrder ==
  ParseStatusReturned /\ arg.homework.kind = "dict" =>
    LET h == arg.homework IN
    /\ ret.exc =
         IF ~h.hasName
         THEN Raise("MissingHomeworkKeyError",
                    "Otsutstvuet klyuch \"homework_name\" v homework.")
         ELSE IF ~h.hasStatus
         THEN Raise("MissingHomeworkKeyError",
                    "Otsutstvuet klyuch \"status\" v homework.")
         ELSE IF h.status \notin {"approved", "reviewing", "rejected"}
         THEN Raise("UnknownHomeworkStatusError",
                    "Neizvestnyy status raboty: " \o h.status)
         ELSE NoExc
    /\ (ret.exc = NoExc <=>
          /\ h.hasName /\ h.hasStatus
          /\ h.status \in {"approved", "reviewing", "rejected"})

C14_Witness ==
  /\ ParseStatusReturned
  /\ arg.homework.kind = "dict"
  /\ ~arg.homework.hasName /\ ~arg.homework.hasStatus
  /\ ret.exc = Raise("MissingHomeworkKeyError",
                     "Otsutstvuet klyuch \"homework_name\" v homework.")

\* C15: a successfully formatted record reads: the fixed prefix, the
\* homework name in double quotes, a full stop, a space, and the verdict
\* phrase of the record's status.
C15_StatusSentence ==
  ParseStatusReturned /\ ret.exc = NoExc =>
    ret.text = "Izmenilsya status proverki raboty \""
               \o arg.homework.homework_name \o "\". "
               \o HOMEWORK_VERDICTS[arg.homework.status]

\* C16 as stated: every failure of the transport (connection refused,
\* timeout) is a connection error; a status other than success is a
\* response error; an undecodable body is a decode error; only a decodable
\* success response yields a payload.
C16_TransportFailureIsConnectionError ==
  GetApiAnswerReturned =>
    LET o == arg.outcome IN
    /\ ret.exc.type =
         IF o.transport # "ok" THEN "APIConnectionError"
         ELSE IF o.status_code # HTTP_OK THEN "APIResponseError"
         ELSE IF ~o.decodable THEN "JSONDecodeError"
         ELSE NoExc.type
    /\ (ret.exc = NoExc => ret.payload = o.payload)

\* C16 amended: a requests ConnectionError (connection refused, connect
\* timeout) is a connection error; every other exception of the request
\* (a read timeout among them) and every status other than success is a
\* response error, the latter carrying the status code; an undecodable
\* body is a decode error; only a decodable success response yields a
\* payload, the decoded one; and one GET is made with from_date equal to
\* the cursor.
C16_FetchClassifies ==
  GetApiAnswerReturned =>
    LET o == arg.outcome IN
    /\ ret.exc.type =
         IF IsConnectionError(o.transport) THEN "APIConnectionError"
         ELSE IF o.transport # "ok" THEN "APIResponseError"
         ELSE IF o.status_code # HTTP_OK THEN "APIResponseError"
         ELSE IF ~o.decodable THEN "JSONDecodeError"
         ELSE NoExc.type
    /\ (o.transport = "ok" /\ o.status_code # HTTP_OK =>
          ret.exc.msg = "API vernul kod otveta "
                        \o ToString(o.status_code) \o ".")
    /\ (ret.exc = NoExc => ret.payload = o.payload)
    /\ (ret.exc # NoExc => ret.payload = NullPayload)
    /\ requests = <<timestamp>>

C16_Witness ==
  /\ GetApiAnswerReturned
  /\ arg.outcome.transport = "ReadTimeout"
  /\ ret.exc.type = "APIResponseError"

\* ---- the loop again (Spec)
\* C17: a cycle in which check_response accepted a payload with an empty
\* homeworks list hands no message to the channel, leaves last_status as
\* it was, and goes on to the sleep as a cycle that did not raise.
C17_EmptyListCycleIsQuiet ==
  validated = "empty list" =>
    /\ attempts = <<>>
    /\ last_status = last0
    /\ pc # "except"
    /\ exc = NoExc

\* C18: error_sent is set only by an except clause whose send of the error
\* text returned, and cleared only by the else clause, which every cycle
\* that did not raise runs; an except clause that finds it set sends
\* nothing and leaves it set; one that finds it unset sends the error text
\* once, and when that send fails the exception leaves main().  So of
\* consecutive failing cycles only the first sends from an except clause,
\* and a failure after a cycle that did not raise sends again.
C18_ErrorLatch ==
  /\ [][ error_sent' # error_sent =>
           IF error_sent'
           THEN /\ pc = "except"
                /\ attempts' = Append(attempts,
                                      Attempt(error_text(exc), TRUE))
           ELSE pc = "else" ]_vars
  /\ [][ (pc = "except" /\ error_sent) =>
           attempts' = attempts /\ error_sent' /\ exc' = NoExc ]_vars
  /\ [][ (pc = "except" /\ ~error_sent) =>
           /\ Len(attempts') = Len(attempts) + 1
           /\ SubSeq(attempts', 1, Len(attempts)) = attempts
           /\ attempts'[Len(attempts')].text = error_text(exc)
           /\ error_sent' = attempts'[Len(attempts')].ok
           /\ (exc' = NoExc <=> attempts'[Len(attempts')].ok) ]_vars
  /\ [][ pc = "else" => ~error_sent' /\ attempts' = attempts ]_vars
  /\ [][ Len(attempts') > Len(attempts) => pc \in {"body", "except"} ]_vars
  /\ []( pc = "poll" /\ error_sent => exc = NoExc /\ attempts = <<>> )

\* a failing cycle that found the latch set: it has sent nothing
C18_Witness ==
  /\ pc = "finally"
  /\ error_sent
  /\ requests # <<>>
  /\ attempts = <<>>
  /\ exc = NoExc

\* C19: a cycle in which the send of a status text failed leaves
\* last_status and timestamp as they were when it began, and they are
\* carried unchanged into the next cycle, whose requests all carry the
\* from_date the cursor had when it began; when the response of that next
\* cycle formats to the same text, the text is handed to the channel
\* again, and when the channel takes it last_status becomes that text.
C19_UnsentStatusIsRetried ==
  /\ []( Unsent(attempts) # None =>
           /\ last_status = last0
           /\ timestamp = ts0
           /\ Unsent(attempts) # last_status )
  /\ []( \A i \in 1..Len(requests) : requests[i] = ts0 )
  /\ [][ (pc = "slept" /\ pc' = "poll") =>
           /\ timestamp' = timestamp /\ ts0' = timestamp
           /\ last_status' = last_status /\ last0' = last_status
           /\ unsent0' = Unsent(attempts) ]_vars
  /\ []( (unsent0 # None /\ pc \in {"poll", "fetch2", "body"}) =>
           last_status # unsent0 /\ timestamp = ts0 )
  /\ [][ (pc = "body" /\ unsent0 # None /\ HasFormatted(response)
          /\ Formatted(response) = unsent0) =>
           /\ Len(attempts') = Len(attempts) + 1
           /\ attempts'[Len(attempts')].text = unsent0
           /\ (attempts'[Len(attempts')].ok =>
                 last_status' = unsent0 /\ pc' = "else") ]_vars

\* the status whose send failed in the previous cycle went through in
\* this one
C19_Witness ==
  /\ pc = "else"
  /\ unsent0 # None
  /\ attempts = <<Attempt(unsent0, TRUE)>>
  /\ last_status = unsent0
====
